---- MODULE Spec2Model ----
(***************************************************************************)
(* Model of the pixel-art image generator of jchoi3473/smol1               *)
(* (src/app/components/ImageGenerator.tsx): the raster pipeline of         *)
(* pixelateImage (crop to the subject, downsample to a sprite grid,        *)
(* palette quantization with ordered dithering, outline by dilation,       *)
(* compositing on the filled square canvas), normalizeImageBlob, the       *)
(* component's handlers and processImage runs with their object URLs       *)
(* (SpecUI), and the POST handler of the image-edit route (SpecRoute).     *)
(*                                                                         *)
(* An image is a record [width, height, data]; data maps the pixel index   *)
(* y*width + x (the source's idx / 4) to an RGBA8 quadruple <<r,g,b,a>>.   *)
(*                                                                         *)
(* The source computes the dithered channels and the colour distance in    *)
(* IEEE doubles.  Here a channel handed to findNearestInPalette is a       *)
(* fixed-point number in units of 1/FixedScale and the distance is the     *)
(* source's distance times 100 * FixedScale^2, with the rounding of the    *)
(* computed sum kept where two exact distances are equal (RoundsAbove).    *)
(***************************************************************************)
EXTENDS Integers, Sequences, FiniteSets, TLC

VARIABLES
    pc,               \* position of the run being modelled
    srcImage,         \* pixelateImage: ImageData read from the source canvas
    blockSize,        \* pixelateImage: its blockSize argument
    palette,          \* React state: the palette's name
    ditherEnabled,    \* React state
    ditherStrength,   \* React state, in hundredths (20 is 0.2)
    outlineThickness, \* React state, in halves (1 is 0.5)
    cropBounds,       \* pixelateImage: the crop rectangle
    smallImage,       \* pixelateImage: ImageData of the small canvas
    paletteRgb,       \* pixelateImage: PALETTES[palette]
    quantized,        \* pixelateImage: the quantized sprite
    requantized,      \* a second quantizeImageToPalette of `quantized`
    outlineImage,     \* pixelateImage: the outline buffer
    layout,           \* pixelateImage: square, targetW/H, offsetX/Y
    finalCanvas,      \* pixelateImage: the final canvas's pixels
    normIn,           \* normalizeImageBlob: the input blob and longestSide
    normOut,          \* normalizeImageBlob: the returned blob, or the throw
    nearestIn,        \* findNearestInPalette: its r, g, b and palette arguments
    nearestOut,       \* findNearestInPalette: the index of the returned entry
    selectedFile,     \* React state (0 is null)
    processingState,  \* React state: [phase, message]
    progress,         \* React state, in hundredths
    removeBg,         \* React state
    normalizeEnabled, \* React state
    originalPreviewUrl, \* React state: an object URL (0 is null)
    finalPreviewUrl,  \* React state: an object URL (0 is null)
    mounted,          \* whether the component is mounted
    objectUrls,       \* URL.createObjectURL / revokeObjectURL: [created, revoked]
    runs,             \* the processImage calls, in the order they started
    request,          \* POST: the request and what its collaborators will do
    response,         \* POST: the responses returned
    providerCalls     \* POST: calls of client.images.edit

vars == << pc, srcImage, blockSize, palette, ditherEnabled, ditherStrength,
           outlineThickness, cropBounds, smallImage, paletteRgb, quantized,
           requantized, outlineImage, layout, finalCanvas, normIn, normOut,
           nearestIn, nearestOut, selectedFile, processingState, progress,
           removeBg, normalizeEnabled, originalPreviewUrl, finalPreviewUrl,
           mounted, objectUrls, runs, request, response, providerCalls >>

rasterVars == << srcImage, blockSize, palette, ditherEnabled, ditherStrength,
                 outlineThickness, cropBounds, smallImage, paletteRgb, quantized,
                 requantized, outlineImage, layout, finalCanvas, normIn, normOut >>
nearestVars == << nearestIn, nearestOut >>
uiVars == << selectedFile, processingState, progress, removeBg, normalizeEnabled,
             originalPreviewUrl, finalPreviewUrl, mounted, objectUrls, runs >>
routeVars == << request, response, providerCalls >>

Null == "null"

\* The variables of the parts a specification does not exercise.
NoRaster ==
    /\ srcImage = Null /\ blockSize = Null /\ palette = Null
    /\ ditherEnabled = Null /\ ditherStrength = Null /\ outlineThickness = Null
    /\ cropBounds = Null /\ smallImage = Null /\ paletteRgb = Null
    /\ quantized = Null /\ requantized = Null /\ outlineImage = Null
    /\ layout = Null /\ finalCanvas = Null /\ normIn = Null /\ normOut = Null
NoNearest == nearestIn = Null /\ nearestOut = Null
NoUi ==
    /\ selectedFile = Null /\ processingState = Null /\ progress = Null
    /\ removeBg = Null /\ normalizeEnabled = Null /\ originalPreviewUrl = Null
    /\ finalPreviewUrl = Null /\ mounted = Null /\ objectUrls = Null /\ runs = Null
NoRoute == request = Null /\ response = Null /\ providerCalls = Null

(***************************************************************************)
(* Bounds of the model.                                                    *)
(***************************************************************************)
\* Channels passed to findNearestInPalette are in units of 1/FixedScale.
FixedScale == 16
\* Largest side of the quantizer's generated inputs, and their last seed.
MaxQuantDim == 4
MaxSeed == 2
\* Largest side of the outline stage's inputs, and how many set pixels.
MaxOutlineDim == 4
MaxSetPixels == 2
\* Largest outlineThickness of the outline stage's inputs, in halves.
MaxOutlineHalves == 5
\* Largest side of a generated input image.
MaxDim == 9
\* Largest blockSize argument (0 is included).
MaxBlock == 1
\* Largest outlineThickness, in halves.
MaxThicknessHalves == 3
\* Largest image side and longestSide of the normalizer's inputs.
MaxNormDim == 22

(***************************************************************************)
(* Program constants.                                                      *)
(***************************************************************************)
QuantAlphaMin == 5
DitherAmpMax == 32
OutlineAlphaThreshold == 10
CropAlphaThreshold == 16
MinSpriteDim == 8
CoverageTenths == 6
DefaultPixelSize == 8
DefaultDitherStrength == 20

BACKGROUND_FILL == << 237, 141, 38, 255 >>

PALETTES ==
    [ gb    |-> << <<15, 56, 15>>, <<48, 98, 48>>, <<139, 172, 15>>,
                   <<155, 188, 15>> >>,
      nes   |-> << <<124, 124, 124>>, <<0, 0, 252>>, <<0, 0, 188>>,
                   <<68, 40, 188>>, <<148, 0, 132>>, <<168, 0, 32>>,
                   <<168, 16, 0>>, <<136, 20, 0>>, <<80, 48, 0>>,
                   <<0, 120, 0>>, <<0, 104, 0>>, <<0, 88, 0>>,
                   <<0, 64, 88>>, <<0, 0, 0>>, <<188, 188, 188>>,
                   <<248, 248, 248>> >>,
      ega   |-> << <<0, 0, 0>>, <<0, 0, 170>>, <<0, 170, 0>>,
                   <<0, 170, 170>>, <<170, 0, 0>>, <<170, 0, 170>>,
                   <<170, 85, 0>>, <<170, 170, 170>>, <<85, 85, 85>>,
                   <<85, 85, 255>>, <<85, 255, 85>>, <<85, 255, 255>>,
                   <<255, 85, 85>>, <<255, 85, 255>>, <<255, 255, 85>>,
                   <<255, 255, 255>> >>,
      c64   |-> << <<0, 0, 0>>, <<255, 255, 255>>, <<136, 0, 0>>,
                   <<170, 255, 238>>, <<204, 68, 204>>, <<0, 204, 85>>,
                   <<0, 0, 170>>, <<238, 238, 119>>, <<221, 136, 85>>,
                   <<102, 68, 0>>, <<255, 119, 119>>, <<51, 51, 51>>,
                   <<119, 119, 119>>, <<170, 255, 102>>, <<0, 136, 255>>,
                   <<187, 187, 187>> >>,
      pico8 |-> << <<0, 0, 0>>, <<29, 43, 83>>, <<126, 37, 83>>,
                   <<0, 135, 81>>, <<171, 82, 54>>, <<95, 87, 79>>,
                   <<194, 195, 199>>, <<255, 241, 232>>, <<255, 0, 77>>,
                   <<255, 163, 0>>, <<255, 236, 39>>, <<0, 228, 54>>,
                   <<41, 173, 255>>, <<131, 118, 156>>, <<255, 119, 168>>,
                   <<255, 204, 170>> >> ]

PaletteNames == { "gb", "nes", "ega", "c64", "pico8" }

BAYER_4X4 == << << 0, 8, 2, 10 >>,
                << 12, 4, 14, 6 >>,
                << 3, 11, 1, 9 >>,
                << 15, 7, 13, 5 >> >>

(***************************************************************************)
(* Arithmetic helpers (Math.max, Math.min).                                *)
(***************************************************************************)
Max(a, b) == IF a >= b THEN a ELSE b
Min(a, b) == IF a <= b THEN a ELSE b

\* new ImageData(w, h): every byte zero.
Transparent == << 0, 0, 0, 0 >>
NewImageData(w, h) ==
    [ width |-> w, height |-> h, data |-> [ i \in 0 .. (w * h - 1) |-> Transparent ] ]

(***************************************************************************)
(* findNearestInPalette.  r, g, b are in units of 1/FixedScale; the result *)
(* is the palette entry itself.  bestD = -1 stands for POSITIVE_INFINITY.  *)
(***************************************************************************)
\* A copy-paste slip: the green difference taken against the red entry.
PaletteDistanceSwapped(r, g, b, entry) ==
    LET dr == r - entry[1] * FixedScale
        dg == g - entry[1] * FixedScale
        db == b - entry[3] * FixedScale
    IN  30 * dr * dr + 59 * dg * dg + 11 * db * db

PaletteDistance(r, g, b, entry) ==
    LET dr == r - entry[1] * FixedScale
        dg == g - entry[2] * FixedScale
        db == b - entry[3] * FixedScale
    IN  30 * dr * dr + 59 * dg * dg + 11 * db * db

\* The source sums the distance in doubles, left to right.  Two entries at
\* the same exact distance can differ in the last bits of the computed sum:
\* 0.3*2*2 + 0.59*3*3 + 0.11*3*3 is 7.500000000000001 and 0.3*5*5 is 7.5.
\* RoundsAbove lists, for whole channel differences up to 6, the triples
\* << |dr|, |dg|, |db| >> whose computed sum lies above the computed sum of
\* the other triple of the same exact distance; the sign of a difference
\* does not change the computed sum.
RoundsAbove ==
    { << 0, 3, 2 >>, << 1, 3, 2 >>, << 1, 4, 4 >>, << 2, 3, 1 >>,
      << 2, 3, 3 >>, << 2, 3, 5 >>, << 2, 6, 4 >>, << 5, 4, 4 >> }

Abs(v) == IF v < 0 THEN -v ELSE v

\* 1 when the computed distance is the upper one of its exact value.
DistanceUlp(r, g, b, entry) ==
    LET dr == Abs(r - entry[1] * FixedScale)
        dg == Abs(g - entry[2] * FixedScale)
        db == Abs(b - entry[3] * FixedScale)
    IN  IF /\ dr % FixedScale = 0 /\ dg % FixedScale = 0 /\ db % FixedScale = 0
           /\ << dr \div FixedScale, dg \div FixedScale, db \div FixedScale >>
                  \in RoundsAbove
        THEN 1 ELSE 0

\* The scan keeping the last of several nearest entries.
DistanceLessOrEqual(d, ulp, bestD, bestUlp) ==
    d < bestD \/ (d = bestD /\ ulp <= bestUlp)

\* d < bestD on the computed doubles.
DistanceLess(d, ulp, bestD, bestUlp) ==
    d < bestD \/ (d = bestD /\ ulp < bestUlp)

RECURSIVE NearestScan(_, _, _, _, _, _, _, _)
NearestScan(r, g, b, pal, i, bestIdx, bestD, bestUlp) ==
    IF i > Len(pal) THEN bestIdx
    ELSE LET d   == PaletteDistance(r, g, b, pal[i])
             ulp == DistanceUlp(r, g, b, pal[i])
         IN  IF bestD = -1 \/ DistanceLess(d, ulp, bestD, bestUlp)
             THEN NearestScan(r, g, b, pal, i + 1, i, d, ulp)
             ELSE NearestScan(r, g, b, pal, i + 1, bestIdx, bestD, bestUlp)

findNearestInPalette(r, g, b, pal) == pal[NearestScan(r, g, b, pal, 1, 1, -1, 0)]

(***************************************************************************)
(* quantizeImageToPalette.  strength is ditherStrength01 in hundredths.    *)
(***************************************************************************)
clamp255(v) == IF v < 0 THEN 0 ELSE IF v > 255 * FixedScale THEN 255 * FixedScale ELSE v

\* ditherAmp = clamp01(strength) * 32, in hundredths.
DitherAmp(strength) == Max(0, Min(100, strength)) * DitherAmpMax

\* channel + offset * (channel / (yLum + 1)), in units of 1/FixedScale, where
\* offset = (t - 0.5) * 2 * ditherAmp and t = BAYER_4X4[y & 3][x & 3] / 15.
Dithered(c, r, g, b, x, y, amp) ==
    LET bayer == BAYER_4X4[(y % 4) + 1][(x % 4) + 1]
        off   == (2 * bayer - 15) * amp          \* offset * 1500
        lum   == 2126 * r + 7152 * g + 722 * b   \* yLum * 10000
        num   == off * c * 20
        den   == 3 * (lum + 10000)
        whole == num \div den
        frac  == ((num - whole * den) * FixedScale) \div den
    IN  clamp255(c * FixedScale + whole * FixedScale + frac)

\* The cut taken as `a <= 5`: a pixel of alpha 5 is dropped.
QuantizePixelInclusive(p, x, y, pal, amp) ==
    IF p[4] <= QuantAlphaMin THEN << 0, 0, 0, 0 >>
    ELSE LET q == findNearestInPalette(p[1] * FixedScale, p[2] * FixedScale,
                                       p[3] * FixedScale, pal)
         IN  << q[1], q[2], q[3], 255 >>

QuantizePixel(p, x, y, pal, amp) ==
    IF p[4] < QuantAlphaMin THEN << 0, 0, 0, 0 >>
    ELSE LET r == IF amp > 0 THEN Dithered(p[1], p[1], p[2], p[3], x, y, amp)
                  ELSE p[1] * FixedScale
             g == IF amp > 0 THEN Dithered(p[2], p[1], p[2], p[3], x, y, amp)
                  ELSE p[2] * FixedScale
             b == IF amp > 0 THEN Dithered(p[3], p[1], p[2], p[3], x, y, amp)
                  ELSE p[3] * FixedScale
             q == findNearestInPalette(r, g, b, pal)
         IN  << q[1], q[2], q[3], 255 >>

quantizeImageToPalette(src, pal, strength) ==
    LET amp == DitherAmp(strength)
    IN  [ width  |-> src.width,
          height |-> src.height,
          data   |-> [ i \in 0 .. (src.width * src.height - 1) |->
                         QuantizePixel(src.data[i], i % src.width,
                                       i \div src.width, pal, amp) ] ]

(***************************************************************************)
(* Generated inputs: the pixel at index i is colors[(seed + i) mod n].     *)
(***************************************************************************)
PatternImage(w, h, colors, seed) ==
    [ width |-> w, height |-> h,
      data |-> [ i \in 0 .. (w * h - 1) |-> colors[((seed + i) % Len(colors)) + 1] ] ]

\* Pixels as getImageData returns them: alpha on both sides of the
\* quantizer's cut (4, 5), a colour half-way between two palette entries.
QuantColors ==
    << << 255, 0, 0, 255 >>, << 0, 0, 0, 0 >>, << 1, 0, 0, 255 >>,
       << 200, 100, 50, 4 >>, << 200, 100, 50, 5 >>, << 128, 128, 128, 255 >>,
       << 30, 60, 90, 128 >>, << 255, 255, 255, 255 >>, << 12, 200, 77, 255 >> >>

\* Palettes with a duplicate entry, with two entries equidistant from
\* (1,0,0), and with a single entry.
DuplicatePalette == << << 0, 0, 0 >>, << 0, 0, 0 >>, << 255, 255, 255 >>, << 0, 0, 0 >> >>
EquidistantPalette == << << 0, 0, 0 >>, << 2, 0, 0 >>, << 250, 250, 250 >> >>
SinglePalette == << << 10, 20, 30 >> >>
QuantPalettes ==
    { PALETTES[n] : n \in PaletteNames }
        \cup { DuplicatePalette, EquidistantPalette, SinglePalette }

QuantStrengths == { -10, 0, 20, 100, 150 }

(***************************************************************************)
(* SpecQuantize: quantizeImageToPalette applied to an image, and again to  *)
(* its own result with the same palette and strength.                      *)
(***************************************************************************)
InitQuantize ==
    /\ pc = "q_start"
    /\ \E w \in 1 .. MaxQuantDim, h \in 1 .. MaxQuantDim, seed \in 0 .. MaxSeed :
           smallImage = PatternImage(w, h, QuantColors, seed)
    /\ paletteRgb \in QuantPalettes
    /\ ditherStrength \in QuantStrengths
    /\ quantized = Null /\ requantized = Null
    /\ srcImage = Null /\ blockSize = Null /\ palette = Null
    /\ ditherEnabled = Null /\ outlineThickness = Null /\ cropBounds = Null
    /\ outlineImage = Null /\ layout = Null /\ finalCanvas = Null
    /\ normIn = Null /\ normOut = Null
    /\ NoNearest /\ NoUi /\ NoRoute

ApplyQuantize ==
    /\ pc = "q_start"
    /\ quantized' = quantizeImageToPalette(smallImage, paletteRgb, ditherStrength)
    /\ pc' = "q_once"
    /\ UNCHANGED << srcImage, blockSize, palette, ditherEnabled, ditherStrength,
                    outlineThickness, cropBounds, smallImage, paletteRgb,
                    requantized, outlineImage, layout, finalCanvas, normIn, normOut >>
    /\ UNCHANGED << nearestVars, uiVars, routeVars >>

ApplyRequantize ==
    /\ pc = "q_once"
    /\ requantized' = quantizeImageToPalette(quantized, paletteRgb, ditherStrength)
    /\ pc' = "q_twice"
    /\ UNCHANGED << srcImage, blockSize, palette, ditherEnabled, ditherStrength,
                    outlineThickness, cropBounds, smallImage, paletteRgb,
                    quantized, outlineImage, layout, finalCanvas, normIn, normOut >>
    /\ UNCHANGED << nearestVars, uiVars, routeVars >>

NextQuantize == ApplyQuantize \/ ApplyRequantize

SpecQuantize == InitQuantize /\ [][NextQuantize]_vars

(***************************************************************************)
(* C1: with ditherStrength = 0, quantizing the result of a quantization    *)
(* again with the same palette gives the identical image, RGB and alpha,   *)
(* also for palettes with duplicate or equidistant entries.                *)
(***************************************************************************)
C1_QuantizeIdempotent ==
    (pc = "q_twice" /\ ditherStrength = 0) => requantized = quantized

\* An equidistant colour was mapped (to the first entry), and the palette with
\* duplicates was used on a pixel it changes.
C1_Witness ==
    /\ pc = "q_twice" /\ ditherStrength = 0
    /\ paletteRgb = EquidistantPalette
    /\ \E i \in DOMAIN smallImage.data :
          /\ smallImage.data[i] = << 1, 0, 0, 255 >>
          /\ quantized.data[i] = << 0, 0, 0, 255 >>
    /\ \E i \in DOMAIN smallImage.data : smallImage.data[i][4] < QuantAlphaMin

(***************************************************************************)
(* C2: at any dither strength, an input pixel with alpha < 5 becomes       *)
(* (0,0,0,0); any other becomes an entry of the palette with alpha 255;    *)
(* the output has the input's width and height.                            *)
(***************************************************************************)
C2_QuantizeInPalette ==
    pc \in { "q_once", "q_twice" } =>
        /\ quantized.width = smallImage.width
        /\ quantized.height = smallImage.height
        /\ DOMAIN quantized.data = DOMAIN smallImage.data
        /\ \A i \in DOMAIN smallImage.data :
              LET q == quantized.data[i]
              IN  IF smallImage.data[i][4] < 5
                  THEN q = << 0, 0, 0, 0 >>
                  ELSE /\ q[4] = 255
                       /\ \E k \in 1 .. Len(paletteRgb) :
                             paletteRgb[k] = << q[1], q[2], q[3] >>

\* Dithering was on and changed the outcome, on an image with pixels on both
\* sides of the alpha cut.
C2_Witness ==
    /\ pc = "q_once" /\ DitherAmp(ditherStrength) > 0
    /\ \E i \in DOMAIN smallImage.data : smallImage.data[i][4] = 4
    /\ \E i \in DOMAIN smallImage.data : smallImage.data[i][4] = 5
    /\ quantized # quantizeImageToPalette(smallImage, paletteRgb, 0)

(***************************************************************************)
(* createPixelOutline.  The mask is a function from the pixel index to     *)
(* 0/1 (the source's Uint8Array).                                          *)
(***************************************************************************)
AlphaMask(src) ==
    [ i \in 0 .. (src.width * src.height - 1) |->
        IF src.data[i][4] > OutlineAlphaThreshold THEN 1 ELSE 0 ]

\* A round over the 4-neighbourhood: the diagonal neighbours left out.
DilateOnceCross(dilated, width, height) ==
    [ i \in 0 .. (width * height - 1) |->
        LET x == i % width
            y == i \div width
        IN  IF dilated[i] = 1 THEN 1
            ELSE IF \E dy \in -1 .. 1, dx \in -1 .. 1 :
                       /\ (dx = 0) # (dy = 0)
                       /\ x + dx >= 0 /\ x + dx < width
                       /\ y + dy >= 0 /\ y + dy < height
                       /\ dilated[(y + dy) * width + (x + dx)] = 1
                 THEN 1 ELSE 0 ]

\* One round of the loop over t: the 8-neighbourhood, inside the buffer only.
DilateOnce(dilated, width, height) ==
    [ i \in 0 .. (width * height - 1) |->
        LET x == i % width
            y == i \div width
        IN  IF dilated[i] = 1 THEN 1
            ELSE IF \E dy \in -1 .. 1, dx \in -1 .. 1 :
                       /\ ~(dx = 0 /\ dy = 0)
                       /\ x + dx >= 0 /\ x + dx < width
                       /\ y + dy >= 0 /\ y + dy < height
                       /\ dilated[(y + dy) * width + (x + dx)] = 1
                 THEN 1 ELSE 0 ]

RECURSIVE DilateRounds(_, _, _, _, _)
DilateRounds(dilated, width, height, t, thickness) ==
    IF t < thickness
    THEN DilateRounds(DilateOnce(dilated, width, height), width, height, t + 1, thickness)
    ELSE dilated

\* The slip of painting every grown pixel, inside ones included.
OutlinePixelGrown(inside, grown) ==
    IF grown THEN << 0, 0, 0, 255 >> ELSE << 0, 0, 0, 0 >>

\* const outline = grown && !inside
OutlinePixel(inside, grown) ==
    IF grown /\ ~inside THEN << 0, 0, 0, 255 >> ELSE << 0, 0, 0, 0 >>

createPixelOutline(src, thickness) ==
    LET mask == AlphaMask(src)
    IN  IF thickness <= 0 THEN NewImageData(src.width, src.height)
        ELSE LET dilated == DilateRounds(mask, src.width, src.height, 0, thickness)
             IN  [ width  |-> src.width,
                   height |-> src.height,
                   data   |-> [ i \in 0 .. (src.width * src.height - 1) |->
                                  OutlinePixel(mask[i] = 1, dilated[i] = 1) ] ]

\* Math.round in place of Math.floor.
OutlineArgRounded(halves) == Max(0, (halves + 1) \div 2)

\* Math.max(0, Math.floor(outlineThickness)), outlineThickness in halves.
OutlineArg(halves) == Max(0, halves \div 2)

\* Stage 4 of pixelateImage, between the positions `from` and `to`.
OutlineStep(from, to) ==
    /\ pc = from
    /\ outlineImage' = createPixelOutline(quantized, OutlineArg(outlineThickness))
    /\ pc' = to
    /\ UNCHANGED << srcImage, blockSize, palette, ditherEnabled, ditherStrength,
                    outlineThickness, cropBounds, smallImage, paletteRgb,
                    quantized, requantized, layout, finalCanvas, normIn, normOut >>
    /\ UNCHANGED << nearestVars, uiVars, routeVars >>

(***************************************************************************)
(* SpecOutline: stage 4 on any image.  The set pixels are at most          *)
(* MaxSetPixels positions of the buffer; alpha takes the values on both    *)
(* sides of the mask's threshold.                                          *)
(***************************************************************************)
OutlineInput(w, h, S) ==
    [ width |-> w, height |-> h,
      data |-> [ i \in 0 .. (w * h - 1) |->
                   IF i \in S
                   THEN (IF i % 2 = 0 THEN << 255, 0, 77, 255 >> ELSE << 9, 9, 9, 11 >>)
                   ELSE (IF i % 2 = 0 THEN << 0, 0, 0, 0 >> ELSE << 9, 9, 9, 10 >>) ] ]

InitOutline ==
    /\ pc = "o_start"
    /\ \E w \in 1 .. MaxOutlineDim, h \in 1 .. MaxOutlineDim :
         \E S \in SUBSET (0 .. (w * h - 1)) :
            /\ Cardinality(S) <= MaxSetPixels
            /\ quantized = OutlineInput(w, h, S)
    /\ outlineThickness \in -1 .. MaxOutlineHalves
    /\ outlineImage = Null /\ requantized = Null
    /\ srcImage = Null /\ blockSize = Null /\ palette = Null
    /\ ditherEnabled = Null /\ ditherStrength = Null /\ cropBounds = Null
    /\ smallImage = Null /\ paletteRgb = Null /\ layout = Null
    /\ finalCanvas = Null /\ normIn = Null /\ normOut = Null
    /\ NoNearest /\ NoUi /\ NoRoute

ApplyOutline == OutlineStep("o_start", "o_done")

NextOutline == ApplyOutline

SpecOutline == InitOutline /\ [][NextOutline]_vars

(***************************************************************************)
(* C3: for thickness >= 1, no pixel that is set in the original mask       *)
(* (input alpha > 10) is opaque black in createPixelOutline's output.      *)
(***************************************************************************)
C3_OutlineDisjoint ==
    (pc = "o_done" /\ OutlineArg(outlineThickness) >= 1) =>
        \A i \in DOMAIN quantized.data :
            quantized.data[i][4] > 10 => outlineImage.data[i] # << 0, 0, 0, 255 >>

\* A band was drawn around a set pixel.
C3_Witness ==
    /\ pc = "o_done" /\ OutlineArg(outlineThickness) >= 1
    /\ \E i \in DOMAIN quantized.data : quantized.data[i][4] > 10
    /\ \E i \in DOMAIN quantized.data : outlineImage.data[i] = << 0, 0, 0, 255 >>

(***************************************************************************)
(* C4: with thickness 0 createPixelOutline returns a buffer of the input's *)
(* width and height with every pixel fully transparent, whatever the       *)
(* input's alpha; an outlineThickness of 0.5 is floored to 0 by the        *)
(* pipeline and takes this path.                                           *)
(***************************************************************************)
C4_ZeroThicknessTransparent ==
    (pc = "o_done" /\ outlineThickness \in { 0, 1 }) =>
        /\ OutlineArg(outlineThickness) = 0
        /\ outlineImage.width = quantized.width
        /\ outlineImage.height = quantized.height
        /\ DOMAIN outlineImage.data = DOMAIN quantized.data
        /\ \A i \in DOMAIN outlineImage.data : outlineImage.data[i] = << 0, 0, 0, 0 >>

\* outlineThickness is 0.5 and the input has set pixels and unset neighbours.
C4_Witness ==
    /\ pc = "o_done" /\ outlineThickness = 1
    /\ \E i \in DOMAIN quantized.data : quantized.data[i][4] = 255
    /\ \E i \in DOMAIN quantized.data : quantized.data[i][4] = 10

(***************************************************************************)
(* getOpaqueBounds: the scan's minX, maxX, minY, maxY over the pixels with *)
(* alpha > alphaThreshold, from their initial values width, -1, height, -1.*)
(***************************************************************************)
\* The null that getOpaqueBounds returns in place of a rectangle.
NoBounds == [ null |-> TRUE ]

SetMin(S) == CHOOSE m \in S : \A n \in S : m <= n
SetMax(S) == CHOOSE m \in S : \A n \in S : m >= n

OpaqueIndices(image, alphaThreshold) ==
    { i \in 0 .. (image.width * image.height - 1) : image.data[i][4] > alphaThreshold }

\* The comparison `a >= alphaThreshold` in place of `a > alphaThreshold`.
getOpaqueBoundsInclusive(image, alphaThreshold) ==
    LET hits == { i \in 0 .. (image.width * image.height - 1) :
                    image.data[i][4] >= alphaThreshold }
        xs   == { i % image.width : i \in hits }
        ys   == { i \div image.width : i \in hits }
    IN  IF hits = {} THEN NoBounds
        ELSE [ x |-> SetMin(xs), y |-> SetMin(ys),
               w |-> SetMax(xs) - SetMin(xs) + 1, h |-> SetMax(ys) - SetMin(ys) + 1 ]

\* The extent taken as max - min, one short of the inclusive count.
getOpaqueBoundsExclusive(image, alphaThreshold) ==
    LET hits == OpaqueIndices(image, alphaThreshold)
        xs   == { i % image.width : i \in hits }
        ys   == { i \div image.width : i \in hits }
    IN  IF hits = {} THEN NoBounds
        ELSE [ x |-> SetMin(xs), y |-> SetMin(ys),
               w |-> SetMax(xs) - SetMin(xs), h |-> SetMax(ys) - SetMin(ys) ]

getOpaqueBounds(image, alphaThreshold) ==
    LET hits == OpaqueIndices(image, alphaThreshold)
        xs   == { i % image.width : i \in hits }
        ys   == { i \div image.width : i \in hits }
        minX == IF hits = {} THEN image.width ELSE SetMin(xs)
        maxX == IF hits = {} THEN -1 ELSE SetMax(xs)
        minY == IF hits = {} THEN image.height ELSE SetMin(ys)
        maxY == IF hits = {} THEN -1 ELSE SetMax(ys)
    IN  IF maxX < minX \/ maxY < minY THEN NoBounds
        ELSE [ x |-> minX, y |-> minY, w |-> maxX - minX + 1, h |-> maxY - minY + 1 ]

(***************************************************************************)
(* Canvas operations.  drawImage with imageSmoothingEnabled = false takes  *)
(* for each destination pixel the source pixel under its centre;           *)
(* source-over compositing of a pixel onto an opaque backdrop.             *)
(***************************************************************************)
SampleIndex(d, srcN, dstN) == ((2 * d + 1) * srcN) \div (2 * dstN)

DrawScaled(src, sx, sy, sw, sh, dw, dh) ==
    [ width |-> dw, height |-> dh,
      data |-> [ i \in 0 .. (dw * dh - 1) |->
                   src.data[(sy + SampleIndex(i \div dw, sh, dh)) * src.width
                            + sx + SampleIndex(i % dw, sw, dw)] ] ]

\* The pixel copied as putImageData would, without compositing.
OverCopied(p, backdrop) == p

Over(p, backdrop) ==
    IF p[4] = 255 THEN p
    ELSE IF p[4] = 0 THEN backdrop
    ELSE << (p[1] * p[4] + backdrop[1] * (255 - p[4]) + 127) \div 255,
            (p[2] * p[4] + backdrop[2] * (255 - p[4]) + 127) \div 255,
            (p[3] * p[4] + backdrop[3] * (255 - p[4]) + 127) \div 255,
            255 >>

(***************************************************************************)
(* Stage 2's sprite grid.                                                  *)
(***************************************************************************)
\* The grid without the floor of 8.
SpriteDimUnfloored(cropDim, block) == Max(1, cropDim \div Max(1, block))

\* Math.max(8, Math.floor(cropDim / Math.max(1, blockSize)))
SpriteDim(cropDim, block) == Max(MinSpriteDim, cropDim \div Max(1, block))

(***************************************************************************)
(* Stage 5's placement.  k = scaledLongest / smallLongest is a double, and *)
(* Math.floor(small * k) falls one short of the exact quotient for the     *)
(* triples <<small, scaledLongest, smallLongest>> of FloorFallsShort (all  *)
(* such triples with both longest sides at most 40).                       *)
(***************************************************************************)
FloorFallsShort ==
    { << 11, 15, 11 >>, << 11, 30, 11 >>, << 13, 15, 13 >>, << 13, 30, 13 >>,
      << 11, 30, 22 >>, << 22, 15, 22 >>, << 22, 30, 22 >>, << 23, 13, 23 >>,
      << 23, 26, 23 >>, << 25, 29, 25 >>, << 13, 30, 26 >>, << 26, 15, 26 >>,
      << 26, 30, 26 >>, << 29, 31, 29 >>, << 37, 39, 37 >>, << 39, 31, 39 >> }

FloorTimesQuotient(small, scaledLongest, smallLongest) ==
    (small * scaledLongest) \div smallLongest
        - (IF << small, scaledLongest, smallLongest >> \in FloorFallsShort THEN 1 ELSE 0)

\* The earlier version's coverage of 0.7.
CoverageSeventy(square) == (square * 7) \div 10

\* Math.floor(square * coverage), coverage = 0.6
Coverage(square) == (square * CoverageTenths) \div 10

\* The sprite drawn at the canvas's origin, the offsets left at 0.
LayoutUncentred(cropW, cropH, smallW, smallH) ==
    LET square        == Max(cropW, cropH)
        smallLongest  == Max(smallW, smallH)
        scaledLongest == Max(1, Coverage(square))
    IN  [ square  |-> square,
          targetW |-> Max(1, FloorTimesQuotient(smallW, scaledLongest, smallLongest)),
          targetH |-> Max(1, FloorTimesQuotient(smallH, scaledLongest, smallLongest)),
          offsetX |-> 0,
          offsetY |-> 0 ]

Layout(cropW, cropH, smallW, smallH) ==
    LET square        == Max(cropW, cropH)
        smallLongest  == Max(smallW, smallH)
        scaledLongest == Max(1, Coverage(square))
        targetW       == Max(1, FloorTimesQuotient(smallW, scaledLongest, smallLongest))
        targetH       == Max(1, FloorTimesQuotient(smallH, scaledLongest, smallLongest))
    IN  [ square  |-> square,
          targetW |-> targetW,
          targetH |-> targetH,
          offsetX |-> (square - targetW) \div 2,
          offsetY |-> (square - targetH) \div 2 ]

InTarget(l, x, y) ==
    /\ x >= l.offsetX /\ x < l.offsetX + l.targetW
    /\ y >= l.offsetY /\ y < l.offsetY + l.targetH

\* The sprite drawn over the whole canvas instead of the target rectangle.
CompositePixelStretched(l, outline, sprite, x, y) ==
    LET sx == SampleIndex(x, sprite.width, l.square)
        sy == SampleIndex(y, sprite.height, l.square)
        j  == sy * sprite.width + sx
    IN  Over(sprite.data[j], Over(outline.data[j], BACKGROUND_FILL))

\* The second drawImage left out: only the outline canvas is drawn.
CompositePixelOutlineOnly(l, outline, sprite, x, y) ==
    IF InTarget(l, x, y)
    THEN LET sx == SampleIndex(x - l.offsetX, sprite.width, l.targetW)
             sy == SampleIndex(y - l.offsetY, sprite.height, l.targetH)
             j  == sy * sprite.width + sx
         IN  Over(outline.data[j], BACKGROUND_FILL)
    ELSE BACKGROUND_FILL

\* fillRect, then drawImage of the outline canvas, then of the small canvas.
CompositePixel(l, outline, sprite, x, y) ==
    IF InTarget(l, x, y)
    THEN LET sx == SampleIndex(x - l.offsetX, sprite.width, l.targetW)
             sy == SampleIndex(y - l.offsetY, sprite.height, l.targetH)
             j  == sy * sprite.width + sx
         IN  Over(sprite.data[j], Over(outline.data[j], BACKGROUND_FILL))
    ELSE BACKGROUND_FILL

Composite(l, outline, sprite) ==
    [ width |-> l.square, height |-> l.square,
      data |-> [ i \in 0 .. (l.square * l.square - 1) |->
                   CompositePixel(l, outline, sprite, i % l.square, i \div l.square) ] ]

(***************************************************************************)
(* pixelateImage, one action per stage of its body.                        *)
(***************************************************************************)
FullRect(image) == [ x |-> 0, y |-> 0, w |-> image.width, h |-> image.height ]

\* Stage 1: getOpaqueBounds(srcImage, 16) || { x: 0, y: 0, w: width, h: height }
CropStage ==
    /\ pc = "loaded"
    /\ cropBounds' = LET b == getOpaqueBounds(srcImage, CropAlphaThreshold)
                     IN  IF b = NoBounds THEN FullRect(srcImage) ELSE b
    /\ pc' = "cropped"
    /\ UNCHANGED << srcImage, blockSize, palette, ditherEnabled, ditherStrength,
                    outlineThickness, smallImage, paletteRgb, quantized,
                    requantized, outlineImage, layout, finalCanvas, normIn, normOut >>
    /\ UNCHANGED << nearestVars, uiVars, routeVars >>

\* Stage 2: the crop rectangle of the source canvas, copied to the crop canvas
\* and drawn from there onto the small canvas without smoothing.
DownsampleStage ==
    /\ pc = "cropped"
    /\ smallImage' = DrawScaled(srcImage, cropBounds.x, cropBounds.y,
                                cropBounds.w, cropBounds.h,
                                SpriteDim(cropBounds.w, blockSize),
                                SpriteDim(cropBounds.h, blockSize))
    /\ pc' = "small"
    /\ UNCHANGED << srcImage, blockSize, palette, ditherEnabled, ditherStrength,
                    outlineThickness, cropBounds, paletteRgb, quantized,
                    requantized, outlineImage, layout, finalCanvas, normIn, normOut >>
    /\ UNCHANGED << nearestVars, uiVars, routeVars >>

\* Stage 3
QuantizeStage ==
    /\ pc = "small"
    /\ paletteRgb' = PALETTES[palette]
    /\ quantized' = quantizeImageToPalette(smallImage, PALETTES[palette],
                                           IF ditherEnabled THEN ditherStrength ELSE 0)
    /\ pc' = "quantized"
    /\ UNCHANGED << srcImage, blockSize, palette, ditherEnabled, ditherStrength,
                    outlineThickness, cropBounds, smallImage,
                    requantized, outlineImage, layout, finalCanvas, normIn, normOut >>
    /\ UNCHANGED << nearestVars, uiVars, routeVars >>

\* Stage 4
OutlineStage == OutlineStep("quantized", "outlined")

\* Stage 5
CompositeStage ==
    /\ pc = "outlined"
    /\ layout' = Layout(cropBounds.w, cropBounds.h, quantized.width, quantized.height)
    /\ finalCanvas' = Composite(layout', outlineImage, quantized)
    /\ pc' = "composited"
    /\ UNCHANGED << srcImage, blockSize, palette, ditherEnabled, ditherStrength,
                    outlineThickness, cropBounds, smallImage, paletteRgb, quantized,
                    requantized, outlineImage, normIn, normOut >>
    /\ UNCHANGED << nearestVars, uiVars, routeVars >>

(***************************************************************************)
(* Inputs of the pipeline: generated images of sides 1, 3 and MaxDim       *)
(* (opaque, transparent, a subject inside a transparent margin, alpha on   *)
(* both sides of each threshold), and the two end-to-end scenarios.        *)
(***************************************************************************)
OpaqueColors ==
    << << 255, 0, 0, 255 >>, << 20, 200, 40, 255 >>, << 250, 250, 250, 255 >>,
       << 0, 0, 0, 255 >>, << 100, 110, 120, 255 >> >>

MixedColors ==
    << << 90, 90, 200, 16 >>, << 0, 0, 0, 0 >>, << 255, 0, 0, 17 >>,
       << 7, 7, 7, 4 >>, << 0, 0, 0, 0 >>, << 240, 130, 30, 255 >>,
       << 0, 0, 0, 0 >> >>

\* A subject with holes: black and red pixels between transparent ones.
HoleColors ==
    << << 0, 0, 0, 255 >>, << 0, 0, 0, 0 >>, << 255, 0, 0, 255 >>, << 0, 0, 0, 0 >> >>

SubjectImage(w, h) ==
    [ width |-> w, height |-> h,
      data |-> [ i \in 0 .. (w * h - 1) |->
                   LET x == i % w
                       y == i \div w
                   IN  IF /\ x >= w \div 3 /\ x <= w - 1 - (w \div 4)
                          /\ y >= h \div 2 /\ y <= h - 1 - (h \div 5)
                       THEN OpaqueColors[((x + y) % Len(OpaqueColors)) + 1]
                       ELSE Transparent ] ]

Dims == { 1, 3, MaxDim }

GeneratedImages ==
    UNION { { PatternImage(w, h, OpaqueColors, 0),
              PatternImage(w, h, << Transparent >>, 0),
              PatternImage(w, h, MixedColors, 0),
              PatternImage(w, h, HoleColors, 0),
              SubjectImage(w, h) } : w \in Dims, h \in Dims }

SolidRed64 == PatternImage(64, 64, << << 255, 0, 0, 255 >> >>, 0)
Transparent32 == PatternImage(32, 32, << Transparent >>, 0)

BlockSizes == (0 .. MaxBlock) \cup { DefaultPixelSize }

\* Every image with every block size, dither setting and outline thickness
\* under the default palette, and with every palette under the defaults.
InitPipeline ==
    /\ pc = "loaded"
    /\ \/ /\ srcImage \in GeneratedImages
          /\ blockSize \in BlockSizes
          /\ palette = "pico8"
          /\ ditherEnabled \in BOOLEAN
          /\ outlineThickness \in 0 .. MaxThicknessHalves
       \/ /\ srcImage \in GeneratedImages
          /\ blockSize = DefaultPixelSize
          /\ palette \in PaletteNames
          /\ ditherEnabled = TRUE
          /\ outlineThickness = 1
       \/ /\ srcImage = SolidRed64
          /\ blockSize = DefaultPixelSize
          /\ palette = "pico8"
          /\ ditherEnabled = FALSE
          /\ outlineThickness = 0
       \/ /\ srcImage = Transparent32
          /\ blockSize \in BlockSizes
          /\ palette = "pico8"
          /\ ditherEnabled \in BOOLEAN
          /\ outlineThickness \in 0 .. MaxThicknessHalves
    /\ ditherStrength = DefaultDitherStrength
    /\ cropBounds = Null /\ smallImage = Null /\ paletteRgb = Null
    /\ quantized = Null /\ requantized = Null /\ outlineImage = Null
    /\ layout = Null /\ finalCanvas = Null /\ normIn = Null /\ normOut = Null
    /\ NoNearest /\ NoUi /\ NoRoute

Next == CropStage \/ DownsampleStage \/ QuantizeStage \/ OutlineStage \/ CompositeStage

Spec == InitPipeline /\ [][Next]_vars

(***************************************************************************)
(* C5 (as amended): the sprite grid is at least 8 on both axes for every   *)
(* crop and block size; for blockSize >= 1 it is                           *)
(* max(8, floor(crop / blockSize)); a blockSize of 0 is clamped to 1, so   *)
(* the grid is then max(8, crop).                                          *)
(***************************************************************************)
C5_SpriteGrid ==
    pc \in { "small", "quantized", "outlined", "composited" } =>
        /\ smallImage.width >= 8 /\ smallImage.height >= 8
        /\ blockSize >= 1 =>
              /\ smallImage.width = Max(8, cropBounds.w \div blockSize)
              /\ smallImage.height = Max(8, cropBounds.h \div blockSize)
        /\ blockSize = 0 =>
              /\ smallImage.width = Max(8, cropBounds.w)
              /\ smallImage.height = Max(8, cropBounds.h)

\* blockSize 0 went through: a grid as wide as the crop, and the floor of 8 on
\* the other axis.
C5_Witness ==
    /\ pc = "small" /\ blockSize = 0
    /\ cropBounds.w > 8 /\ smallImage.width = cropBounds.w
    /\ cropBounds.h < 8 /\ smallImage.height = 8

\* C5 as stated: the grid is max(8, floor(crop / blockSize)) and a blockSize
\* of 0 is not clamped, so no grid is made from it.
C5_Original ==
    pc \in { "small", "quantized", "outlined", "composited" } =>
        /\ blockSize # 0
        /\ smallImage.width = Max(8, cropBounds.w \div blockSize)
        /\ smallImage.height = Max(8, cropBounds.h \div blockSize)

(***************************************************************************)
(* C6: getOpaqueBounds returns null exactly when no pixel has alpha        *)
(* strictly above the threshold, and pixelateImage then crops to the       *)
(* full-buffer rectangle {0, 0, width, height}.                            *)
(***************************************************************************)
C6_NoBoundsFallback ==
    pc # "loaded" =>
        LET b == getOpaqueBounds(srcImage, 16)
        IN  /\ (b = NoBounds) <=>
                  (\A i \in DOMAIN srcImage.data : ~(srcImage.data[i][4] > 16))
            /\ b = NoBounds =>
                  cropBounds = [ x |-> 0, y |-> 0,
                                 w |-> srcImage.width, h |-> srcImage.height ]
            /\ b # NoBounds => cropBounds = b

\* The fallback was taken for an image whose pixels are at the threshold.
C6_Witness ==
    /\ pc = "cropped"
    /\ \E i \in DOMAIN srcImage.data : srcImage.data[i][4] = 16
    /\ \A i \in DOMAIN srcImage.data : srcImage.data[i][4] <= 16
    /\ cropBounds = FullRect(srcImage)

(***************************************************************************)
(* C7: the final canvas is square with side max(cropW, cropH), and every   *)
(* pixel outside [offsetX, offsetX+targetW) x [offsetY, offsetY+targetH)   *)
(* is the background fill colour, fully opaque.                            *)
(***************************************************************************)
C7_CanvasBackground ==
    pc = "composited" =>
        LET side == Max(cropBounds.w, cropBounds.h)
        IN  /\ finalCanvas.width = side /\ finalCanvas.height = side
            /\ DOMAIN finalCanvas.data = 0 .. (side * side - 1)
            /\ \A i \in DOMAIN finalCanvas.data :
                  LET x == i % side
                      y == i \div side
                  IN  ~(/\ x >= layout.offsetX /\ x < layout.offsetX + layout.targetW
                        /\ y >= layout.offsetY /\ y < layout.offsetY + layout.targetH)
                      => finalCanvas.data[i] = << 237, 141, 38, 255 >>

\* A crop that is not square, with sprite pixels drawn and background left.
C7_Witness ==
    /\ pc = "composited"
    /\ cropBounds.w > cropBounds.h
    /\ \E i \in DOMAIN finalCanvas.data : finalCanvas.data[i] # BACKGROUND_FILL
    /\ \E i \in DOMAIN finalCanvas.data :
          /\ ~InTarget(layout, i % layout.square, i \div layout.square)
          /\ finalCanvas.data[i] = BACKGROUND_FILL

(***************************************************************************)
(* C9 (as amended): the 64x64 opaque red image under pico8, blockSize 8,   *)
(* no dithering, outline thickness 0, gives an 8x8 sprite of (255,0,77,255)*)
(* and a 64x64 canvas that is (255,0,77,255) inside the centred 60%        *)
(* region (38 pixels from offset 13) and the fill colour outside it.       *)
(***************************************************************************)
RedScenario ==
    /\ srcImage = SolidRed64 /\ palette = "pico8" /\ blockSize = 8
    /\ ~ditherEnabled /\ outlineThickness = 0

RedCanvas(first, size) ==
    /\ finalCanvas.width = 64 /\ finalCanvas.height = 64
    /\ \A x \in 0 .. 63, y \in 0 .. 63 :
          finalCanvas.data[y * 64 + x] =
              IF /\ x >= first /\ x < first + size
                 /\ y >= first /\ y < first + size
              THEN << 255, 0, 77, 255 >>
              ELSE << 237, 141, 38, 255 >>

RedSprite ==
    /\ quantized.width = 8 /\ quantized.height = 8
    /\ \A i \in 0 .. 63 : quantized.data[i] = << 255, 0, 77, 255 >>

C9_RedScenario ==
    /\ (RedScenario /\ pc \in { "quantized", "outlined", "composited" }) => RedSprite
    /\ (RedScenario /\ pc = "composited") => RedCanvas(13, 38)

C9_Witness ==
    /\ RedScenario /\ pc = "composited"
    /\ finalCanvas.data[13 * 64 + 13] = << 255, 0, 77, 255 >>
    /\ finalCanvas.data[12 * 64 + 12] = << 237, 141, 38, 255 >>

\* C9 as stated: the sprite region has 70% coverage (44 pixels from offset 10).
C9_Original ==
    /\ (RedScenario /\ pc \in { "quantized", "outlined", "composited" }) => RedSprite
    /\ (RedScenario /\ pc = "composited") => RedCanvas(10, 44)

(***************************************************************************)
(* C10: for the fully transparent 32x32 input getOpaqueBounds reports no   *)
(* bounds, the crop is the full 32x32 rectangle, and every pixel of the    *)
(* 32x32 final canvas is the fill colour, at every outline thickness and   *)
(* dither setting.                                                         *)
(***************************************************************************)
C10_TransparentScenario ==
    /\ (srcImage = Transparent32 /\ pc # "loaded") =>
          /\ getOpaqueBounds(srcImage, 16) = NoBounds
          /\ cropBounds = [ x |-> 0, y |-> 0, w |-> 32, h |-> 32 ]
    /\ (srcImage = Transparent32 /\ pc \in { "outlined", "composited" }) =>
          \A i \in DOMAIN outlineImage.data : outlineImage.data[i][4] = 0
    /\ (srcImage = Transparent32 /\ pc = "composited") =>
          /\ finalCanvas.width = 32 /\ finalCanvas.height = 32
          /\ \A i \in 0 .. (32 * 32 - 1) : finalCanvas.data[i] = << 237, 141, 38, 255 >>

\* Composited with dithering on and an outline thickness of at least 1.
C10_Witness ==
    /\ srcImage = Transparent32 /\ pc = "composited"
    /\ ditherEnabled /\ OutlineArg(outlineThickness) >= 1

(***************************************************************************)
(* normalizeImageBlob, and downscaleToPng of the AI-generation version of  *)
(* the component.  A blob is [id, width, height]: id 0 is the input        *)
(* object, id 1 a blob newly made by canvas.toBlob.  scale =               *)
(* longestSide / currentLongest is a double, and Math.round(dim * scale)   *)
(* falls one short of the exact rounding for the triples                   *)
(* <<dim, longestSide, currentLongest>> of RoundFallsShort (all such       *)
(* triples with currentLongest at most 40 and longestSide below it).       *)
(***************************************************************************)
RoundFallsShort == { << 11, 15, 22 >>, << 13, 15, 26 >> }

\* Math.round(dim * (longestSide / currentLongest))
RoundTimesQuotient(dim, longestSide, currentLongest) ==
    (2 * dim * longestSide + currentLongest) \div (2 * currentLongest)
        - (IF << dim, longestSide, currentLongest >> \in RoundFallsShort THEN 1 ELSE 0)

Returned(blob) == [ threw |-> FALSE, blob |-> blob ]
Threw(message) == [ threw |-> TRUE, message |-> message ]

\* The early return dropped: every input is redrawn and re-encoded.
normalizeImageBlobAlways(input, longestSide, loadOk, ctxOk, exportOk) ==
    LET currentLongest == Max(input.width, input.height)
        l == Min(longestSide, currentLongest)
    IN  IF ~loadOk THEN Threw("Failed to load image")
        ELSE IF ~ctxOk THEN Threw("Failed to get 2D context for normalize")
        ELSE IF ~exportOk THEN Threw("Failed to export image")
        ELSE Returned([ id |-> 1,
                        width |-> Max(1, RoundTimesQuotient(input.width, l, currentLongest)),
                        height |-> Max(1, RoundTimesQuotient(input.height, l, currentLongest)) ])

normalizeImageBlob(input, longestSide, loadOk, ctxOk, exportOk) ==
    LET currentLongest == Max(input.width, input.height)
    IN  IF ~loadOk THEN Threw("Failed to load image")
        ELSE IF currentLongest <= longestSide THEN Returned(input)
        ELSE IF ~ctxOk THEN Threw("Failed to get 2D context for normalize")
        ELSE IF ~exportOk THEN Threw("Failed to export image")
        ELSE Returned([ id |-> 1,
                        width |-> Max(1, RoundTimesQuotient(input.width, longestSide,
                                                            currentLongest)),
                        height |-> Max(1, RoundTimesQuotient(input.height, longestSide,
                                                             currentLongest)) ])

\* scale = currentLongest > longestSide ? longestSide / currentLongest : 1
downscaleToPng(file, longestSide, loadOk, ctxOk, exportOk) ==
    LET currentLongest == Max(file.width, file.height)
        shrink == currentLongest > longestSide
    IN  IF ~loadOk THEN Threw("Failed to load image")
        ELSE IF ~ctxOk THEN Threw("Failed to get 2D context")
        ELSE IF ~exportOk THEN Threw("Failed to export image")
        ELSE Returned([ id |-> 1,
                        width |-> IF shrink
                                  THEN Max(1, RoundTimesQuotient(file.width, longestSide,
                                                                 currentLongest))
                                  ELSE Max(1, file.width),
                        height |-> IF shrink
                                   THEN Max(1, RoundTimesQuotient(file.height, longestSide,
                                                                  currentLongest))
                                   ELSE Max(1, file.height) ])

InitNormalize ==
    /\ pc = "n_start"
    /\ \E w \in 1 .. MaxNormDim, h \in 1 .. MaxNormDim, l \in 1 .. MaxNormDim :
          normIn = [ blob |-> [ id |-> 0, width |-> w, height |-> h ], longestSide |-> l ]
    /\ normOut = Null
    /\ NoNearest /\ NoUi /\ NoRoute
    /\ srcImage = Null /\ blockSize = Null /\ palette = Null
    /\ ditherEnabled = Null /\ ditherStrength = Null /\ outlineThickness = Null
    /\ cropBounds = Null /\ smallImage = Null /\ paletteRgb = Null
    /\ quantized = Null /\ requantized = Null /\ outlineImage = Null
    /\ layout = Null /\ finalCanvas = Null

NormalizeImageBlob ==
    /\ pc = "n_start"
    /\ \E loadOk \in BOOLEAN, ctxOk \in BOOLEAN, exportOk \in BOOLEAN :
          normOut' = normalizeImageBlob(normIn.blob, normIn.longestSide,
                                        loadOk, ctxOk, exportOk)
    /\ pc' = "n_done"
    /\ UNCHANGED << srcImage, blockSize, palette, ditherEnabled, ditherStrength,
                    outlineThickness, cropBounds, smallImage, paletteRgb, quantized,
                    requantized, outlineImage, layout, finalCanvas, normIn >>
    /\ UNCHANGED << nearestVars, uiVars, routeVars >>

DownscaleToPng ==
    /\ pc = "n_start"
    /\ \E loadOk \in BOOLEAN, ctxOk \in BOOLEAN, exportOk \in BOOLEAN :
          normOut' = downscaleToPng(normIn.blob, normIn.longestSide,
                                    loadOk, ctxOk, exportOk)
    /\ pc' = "d_done"
    /\ UNCHANGED << srcImage, blockSize, palette, ditherEnabled, ditherStrength,
                    outlineThickness, cropBounds, smallImage, paletteRgb, quantized,
                    requantized, outlineImage, layout, finalCanvas, normIn >>
    /\ UNCHANGED << nearestVars, uiVars, routeVars >>

NextNormalize == NormalizeImageBlob \/ DownscaleToPng

SpecNormalize == InitNormalize /\ [][NextNormalize]_vars

(***************************************************************************)
(* C8 (as amended): when the input's longest side exceeds longestSide,     *)
(* normalizeImageBlob returns a new image whose longest side is at most    *)
(* longestSide, each side being max(1, round(dim * longestSide / longest)) *)
(* except that where dim * longestSide / longest lies exactly half-way     *)
(* between two integers the side may be the lower of the two; when the     *)
(* longest side is within longestSide it returns the input blob itself.    *)
(***************************************************************************)
ExactRound(dim, longestSide, currentLongest) ==
    (2 * dim * longestSide + currentLongest) \div (2 * currentLongest)

HalfWay(dim, longestSide, currentLongest) ==
    (2 * dim * longestSide) % (2 * currentLongest) = currentLongest

SideAsRounded(out, dim, longestSide, currentLongest) ==
    LET exact == ExactRound(dim, longestSide, currentLongest)
    IN  IF HalfWay(dim, longestSide, currentLongest)
        THEN out \in { Max(1, exact - 1), Max(1, exact) }
        ELSE out = Max(1, exact)

C8_NormalizeWithinLimit ==
    (pc = "n_done" /\ ~normOut.threw) =>
        LET w == normIn.blob.width
            h == normIn.blob.height
            l == normIn.longestSide
            longest == Max(w, h)
        IN  IF longest <= l
            THEN normOut.blob = normIn.blob
            ELSE /\ normOut.blob.id # normIn.blob.id
                 /\ Max(normOut.blob.width, normOut.blob.height) <= l
                 /\ SideAsRounded(normOut.blob.width, w, l, longest)
                 /\ SideAsRounded(normOut.blob.height, h, l, longest)

\* An 11x22 image normalized to a longest side of 15 came back 7x15.
C8_Witness ==
    /\ pc = "n_done" /\ ~normOut.threw
    /\ normIn.blob.width = 11 /\ normIn.blob.height = 22 /\ normIn.longestSide = 15
    /\ normOut.blob.width = 7 /\ normOut.blob.height = 15

\* C8 as stated: each side is exactly max(1, round(dim * longestSide / longest)).
C8_Original ==
    (pc = "n_done" /\ ~normOut.threw) =>
        LET w == normIn.blob.width
            h == normIn.blob.height
            l == normIn.longestSide
            longest == Max(w, h)
        IN  IF longest <= l
            THEN normOut.blob = normIn.blob
            ELSE /\ Max(normOut.blob.width, normOut.blob.height) <= l
                 /\ normOut.blob.width = Max(1, ExactRound(w, l, longest))
                 /\ normOut.blob.height = Max(1, ExactRound(h, l, longest))

(***************************************************************************)
(* SpecNearest: findNearestInPalette applied once to whole-valued          *)
(* channels (the quantizer with dithering off) and a palette.              *)
(***************************************************************************)
\* Largest channel value of the inputs and of the palettes' entries.
MaxChannel == 5

\* Two entries at the same exact distance from (0,0,0) whose computed
\* distances differ, in both orders; entries equidistant from (1,0,0) with
\* a repeated entry; a single entry; two pairs of equidistant entries.
NearestPalettes ==
    { << << 2, 3, 3 >>, << 5, 0, 0 >> >>,
      << << 5, 0, 0 >>, << 2, 3, 3 >> >>,
      << << 0, 0, 0 >>, << 2, 0, 0 >>, << 0, 0, 0 >> >>,
      << << 4, 4, 4 >> >>,
      << << 1, 1, 1 >>, << 3, 2, 2 >>, << 4, 1, 1 >>, << 3, 2, 2 >> >> }

InitNearest ==
    /\ pc = "f_start"
    /\ \E r \in 0 .. MaxChannel, g \in 0 .. MaxChannel, b \in 0 .. MaxChannel :
         \E pal \in NearestPalettes :
           nearestIn = [ r |-> r, g |-> g, b |-> b, palette |-> pal ]
    /\ nearestOut = 0
    /\ NoRaster /\ NoUi /\ NoRoute

\* bestIdx of the scan; the function returns palette[bestIdx].
FindNearestInPalette ==
    /\ pc = "f_start"
    /\ nearestOut' = NearestScan(nearestIn.r * FixedScale, nearestIn.g * FixedScale,
                                 nearestIn.b * FixedScale, nearestIn.palette,
                                 1, 1, -1, 0)
    /\ pc' = "f_done"
    /\ UNCHANGED << nearestIn, rasterVars, uiVars, routeVars >>

NextNearest == FindNearestInPalette

SpecNearest == InitNearest /\ [][NextNearest]_vars

\* The exact distance of palette entry j from the input, times 100 *
\* FixedScale^2, and whether its computed double is the upper one.
NearestExact(j) ==
    PaletteDistance(nearestIn.r * FixedScale, nearestIn.g * FixedScale,
                    nearestIn.b * FixedScale, nearestIn.palette[j])
NearestUlp(j) ==
    DistanceUlp(nearestIn.r * FixedScale, nearestIn.g * FixedScale,
                nearestIn.b * FixedScale, nearestIn.palette[j])
\* The computed distance of entry i is below that of entry j.
ComputedBelow(i, j) ==
    \/ NearestExact(i) < NearestExact(j)
    \/ NearestExact(i) = NearestExact(j) /\ NearestUlp(i) < NearestUlp(j)

\* C12 (as amended): the returned entry minimises the distance
\* 0.3*dr^2 + 0.59*dg^2 + 0.11*db^2, and among the entries whose distance
\* as computed in doubles is the smallest it is the one of lowest index:
\* every earlier entry has a computed distance strictly above it.
C12_NearestComputed ==
    pc = "f_done" =>
        /\ nearestOut \in 1 .. Len(nearestIn.palette)
        /\ \A j \in 1 .. Len(nearestIn.palette) :
             /\ NearestExact(nearestOut) <= NearestExact(j)
             /\ ~ComputedBelow(j, nearestOut)
             /\ j < nearestOut => ComputedBelow(nearestOut, j)

\* Two different entries share the smallest computed distance and the
\* first of them is returned.
C12_Witness ==
    /\ pc = "f_done"
    /\ \E j \in 1 .. Len(nearestIn.palette) :
         /\ j > nearestOut
         /\ nearestIn.palette[j] # nearestIn.palette[nearestOut]
         /\ NearestExact(j) = NearestExact(nearestOut)
         /\ NearestUlp(j) = NearestUlp(nearestOut)

\* C12 as stated: among the entries sharing the minimum of the exact
\* distance the one of lowest index is returned.
C12_Original ==
    pc = "f_done" =>
        \A j \in 1 .. Len(nearestIn.palette) :
          /\ NearestExact(nearestOut) <= NearestExact(j)
          /\ j < nearestOut => NearestExact(nearestOut) < NearestExact(j)

(***************************************************************************)
(* Claims on the crop rectangle (Spec).                                    *)
(***************************************************************************)
\* The pixel (x, y) of the source image has alpha above the crop threshold.
IsSubject(x, y) == srcImage.data[y * srcImage.width + x][4] > CropAlphaThreshold

\* C13: whenever getOpaqueBounds returns a rectangle it lies inside the
\* image with w >= 1 and h >= 1, no pixel of alpha > threshold lies outside
\* it, and its first and last column and its first and last row each
\* contain such a pixel.
C13_TightBounds ==
    (pc # "loaded" /\ getOpaqueBounds(srcImage, CropAlphaThreshold) # NoBounds) =>
        LET b  == cropBounds
            xs == 0 .. (srcImage.width - 1)
            ys == 0 .. (srcImage.height - 1)
        IN  /\ b.x >= 0 /\ b.y >= 0 /\ b.w >= 1 /\ b.h >= 1
            /\ b.x + b.w <= srcImage.width /\ b.y + b.h <= srcImage.height
            /\ \A x \in xs, y \in ys :
                 IsSubject(x, y) => /\ b.x <= x /\ x < b.x + b.w
                                    /\ b.y <= y /\ y < b.y + b.h
            /\ \E y \in ys : IsSubject(b.x, y)
            /\ \E y \in ys : IsSubject(b.x + b.w - 1, y)
            /\ \E x \in xs : IsSubject(x, b.y)
            /\ \E x \in xs : IsSubject(x, b.y + b.h - 1)

\* A rectangle of several pixels with a margin on every side was returned.
C13_Witness ==
    /\ pc # "loaded"
    /\ getOpaqueBounds(srcImage, CropAlphaThreshold) # NoBounds
    /\ cropBounds.x > 0 /\ cropBounds.y > 0
    /\ cropBounds.w > 1 /\ cropBounds.h > 1
    /\ cropBounds.x + cropBounds.w < srcImage.width
    /\ cropBounds.y + cropBounds.h < srcImage.height

(***************************************************************************)
(* Claims on the dilation (SpecOutline).                                   *)
(***************************************************************************)
\* The Chebyshev distance of the pixels of indices i and j of `quantized`.
Chebyshev(i, j) ==
    LET w == quantized.width
    IN  Max(Abs((i % w) - (j % w)), Abs((i \div w) - (j \div w)))

\* Pixel i of `quantized` is set in the original mask.
IsSet(i) == quantized.data[i][4] > OutlineAlphaThreshold

\* C14: for a thickness t >= 1 a pixel of the outline buffer is opaque
\* black exactly when it is not set in the original mask and some set pixel
\* of the buffer lies within Chebyshev distance t of it; every other pixel
\* is fully transparent.
C14_OutlineIsChebyshevBand ==
    (pc = "o_done" /\ OutlineArg(outlineThickness) >= 1) =>
        LET n == quantized.width * quantized.height
            t == OutlineArg(outlineThickness)
        IN  /\ outlineImage.width = quantized.width
            /\ outlineImage.height = quantized.height
            /\ \A i \in 0 .. (n - 1) :
                 IF ~IsSet(i) /\ \E j \in 0 .. (n - 1) : IsSet(j) /\ Chebyshev(i, j) <= t
                 THEN outlineImage.data[i] = << 0, 0, 0, 255 >>
                 ELSE outlineImage.data[i] = << 0, 0, 0, 0 >>

\* Thickness 2: a pixel two steps diagonally from the only set pixel is
\* black, and a pixel three steps away is transparent.
C14_Witness ==
    /\ pc = "o_done" /\ OutlineArg(outlineThickness) = 2
    /\ \E i, j, k \in 0 .. (quantized.width * quantized.height - 1) :
         /\ IsSet(j) /\ \A m \in 0 .. (quantized.width * quantized.height - 1) :
                           IsSet(m) => m = j
         /\ Chebyshev(i, j) = 2 /\ Abs((i % quantized.width) - (j % quantized.width)) = 2
         /\ Abs((i \div quantized.width) - (j \div quantized.width)) = 2
         /\ outlineImage.data[i] = << 0, 0, 0, 255 >>
         /\ Chebyshev(k, j) = 3
         /\ outlineImage.data[k] = << 0, 0, 0, 0 >>

(***************************************************************************)
(* Claims on the two draws of stage 5 (Spec).                              *)
(***************************************************************************)
\* The index, in the sprite and in the outline buffer, of the pixel drawn
\* at the final canvas's pixel (x, y) of the target rectangle.
DrawnIndex(x, y) ==
    SampleIndex(y - layout.offsetY, quantized.height, layout.targetH) * quantized.width
        + SampleIndex(x - layout.offsetX, quantized.width, layout.targetW)

Black == << 0, 0, 0, 255 >>
CanvasPixel(x, y) == finalCanvas.data[y * layout.square + x]

\* At every canvas pixel that maps to an opaque sprite pixel the colour is
\* the sprite's palette colour.
SpriteOnTop ==
    \A x \in 0 .. (layout.square - 1), y \in 0 .. (layout.square - 1) :
      (InTarget(layout, x, y) /\ quantized.data[DrawnIndex(x, y)][4] = 255) =>
          CanvasPixel(x, y) = quantized.data[DrawnIndex(x, y)]

\* C15 (as amended): at every final-canvas pixel that maps to an opaque
\* sprite pixel the colour is the sprite's palette colour; at every other
\* pixel of the target rectangle it is black where the pixel maps to an
\* outline-band pixel and the background fill elsewhere.  A black pixel
\* therefore maps to an outline-band pixel or to a sprite pixel whose
\* palette colour is black.
C15_OutlineBeneathSprite ==
    pc = "composited" =>
        /\ SpriteOnTop
        /\ \A x \in 0 .. (layout.square - 1), y \in 0 .. (layout.square - 1) :
             /\ (InTarget(layout, x, y) /\ quantized.data[DrawnIndex(x, y)][4] # 255) =>
                  CanvasPixel(x, y) =
                      IF outlineImage.data[DrawnIndex(x, y)] = Black
                      THEN Black ELSE BACKGROUND_FILL
             /\ CanvasPixel(x, y) = Black =>
                  /\ InTarget(layout, x, y)
                  /\ \/ outlineImage.data[DrawnIndex(x, y)] = Black
                     \/ quantized.data[DrawnIndex(x, y)] = Black

\* A canvas with an outline pixel, a sprite pixel of a colour other than
\* black and a sprite pixel of the palette's black.
C15_Witness ==
    /\ pc = "composited"
    /\ \E x \in 0 .. (layout.square - 1), y \in 0 .. (layout.square - 1) :
         /\ InTarget(layout, x, y)
         /\ outlineImage.data[DrawnIndex(x, y)] = Black
         /\ CanvasPixel(x, y) = Black
    /\ \E x \in 0 .. (layout.square - 1), y \in 0 .. (layout.square - 1) :
         /\ InTarget(layout, x, y)
         /\ quantized.data[DrawnIndex(x, y)][4] = 255
         /\ CanvasPixel(x, y) # Black
    /\ \E x \in 0 .. (layout.square - 1), y \in 0 .. (layout.square - 1) :
         /\ InTarget(layout, x, y)
         /\ quantized.data[DrawnIndex(x, y)] = Black
         /\ CanvasPixel(x, y) = Black

\* C15 as stated: the sprite's colour at the sprite's pixels, and black
\* only at pixels that map to outline-band pixels.
C15_Original ==
    pc = "composited" =>
        /\ SpriteOnTop
        /\ \A x \in 0 .. (layout.square - 1), y \in 0 .. (layout.square - 1) :
             CanvasPixel(x, y) = Black =>
                 /\ InTarget(layout, x, y)
                 /\ outlineImage.data[DrawnIndex(x, y)] = Black

(***************************************************************************)
(* SpecUI: the ImageGenerator component.  A step is one task of the event  *)
(* loop: a change event of the file input or of the checkbox, the          *)
(* settling of one awaited call of a processImage run, or the unmount.     *)
(* A handler runs up to its first await in the task of its event, and a    *)
(* run continues from one await to the next in the task that settles it.   *)
(* Object URLs are numbered in the order of their creation; 0 is null.     *)
(***************************************************************************)
\* How many processImage runs are started, and how many files are offered.
MaxRuns == 2
MaxFiles == 2

NormalizeLongestSide == 512

Files == 1 .. MaxFiles

\* The longest side of the image of file f: file 1 is within the limit of
\* normalizeImageBlob, the others are above it.
FileLongest(f) == f * NormalizeLongestSide - 1

Phase(p) == [ phase |-> p, message |-> "" ]
Failed(m) == [ phase |-> "error", message |-> m ]

isBusy == processingState.phase \in { "removing-background", "pixelating" }

\* URL.createObjectURL: the URL returned is urls.created + 1.
createObjectURL(urls) == [ urls EXCEPT !.created = @ + 1 ]
\* if (url) URL.revokeObjectURL(url)
revokeObjectURL(urls, url) ==
    IF url = 0 THEN urls ELSE [ urls EXCEPT !.revoked = @ \cup { url } ]

\* A state setter: without effect once the component is unmounted.
SetState(current, value) == IF mounted THEN value ELSE current

InFlight(run) == run.pc \notin { "done", "error" }

\* processImage from line 70 to its next await: what it writes and where it
\* waits (removeBackground, or blobToImage of pixelateImage).
AfterNormalize(shouldRemoveBg, urls) ==
    IF shouldRemoveBg
    THEN [ state |-> Phase("removing-background"), progress |-> 25,
           pc |-> "removing", urls |-> urls, decodeUrl |-> 0 ]
    ELSE [ state |-> Phase("pixelating"), progress |-> 40,
           pc |-> "pixelate_load", urls |-> createObjectURL(urls),
           decodeUrl |-> urls.created + 1 ]

\* processImage from its call to its first await (blobToImage of
\* normalizeImageBlob when normalizeEnabled).
ProcessImageStart(shouldRemoveBg, urls) ==
    IF normalizeEnabled
    THEN [ state |-> processingState, progress |-> 15,
           pc |-> "normalize_load", urls |-> createObjectURL(urls),
           decodeUrl |-> urls.created + 1 ]
    ELSE AfterNormalize(shouldRemoveBg, urls)

NewRun(file, shouldRemoveBg, start) ==
    [ file |-> file, shouldRemoveBg |-> shouldRemoveBg, pc |-> start.pc,
      decodeUrl |-> start.decodeUrl, outUrl |-> 0, message |-> "" ]

InitUI ==
    /\ pc = "ui"
    /\ selectedFile = 0
    /\ processingState = Phase("idle")
    /\ progress = 0
    /\ removeBg = TRUE
    /\ normalizeEnabled = TRUE
    /\ originalPreviewUrl = 0
    /\ finalPreviewUrl = 0
    /\ mounted = TRUE
    /\ objectUrls = [ created |-> 0, revoked |-> {} ]
    /\ runs = << >>
    /\ NoRaster /\ NoNearest /\ NoRoute

\* The file input's onChange; the input is disabled while isBusy.
HandleFileChange ==
    /\ mounted /\ ~isBusy
    /\ \E file \in Files \cup { 0 } :
         IF file = 0 THEN UNCHANGED vars
         ELSE /\ Len(runs) < MaxRuns
              /\ LET reset       == revokeObjectURL(objectUrls, finalPreviewUrl)
                     released    == revokeObjectURL(reset, originalPreviewUrl)
                     originalUrl == released.created + 1
                     start       == ProcessImageStart(removeBg, createObjectURL(released))
                 IN  /\ finalPreviewUrl' = 0
                     /\ selectedFile' = file
                     /\ originalPreviewUrl' = originalUrl
                     /\ processingState' = start.state
                     /\ progress' = start.progress
                     /\ objectUrls' = start.urls
                     /\ runs' = Append(runs, NewRun(file, removeBg, start))
              /\ UNCHANGED << removeBg, normalizeEnabled, mounted, pc >>
              /\ UNCHANGED << rasterVars, nearestVars, routeVars >>

\* The checkbox's onChange; the checkbox is disabled while isBusy.
OnRemoveBgToggle ==
    /\ mounted /\ ~isBusy
    /\ removeBg' = ~removeBg
    /\ IF selectedFile # 0
       THEN /\ Len(runs) < MaxRuns
            /\ LET start == ProcessImageStart(~removeBg, objectUrls)
               IN  /\ processingState' = start.state
                   /\ progress' = start.progress
                   /\ objectUrls' = start.urls
                   /\ runs' = Append(runs, NewRun(selectedFile, ~removeBg, start))
       ELSE UNCHANGED << processingState, progress, objectUrls, runs >>
    /\ UNCHANGED << selectedFile, normalizeEnabled, originalPreviewUrl,
                    finalPreviewUrl, mounted, pc >>
    /\ UNCHANGED << rasterVars, nearestVars, routeVars >>

\* What run i writes in one task: its own position, the React state (the
\* setters are without effect after the unmount) and the object URLs.
RunWrites(i, run, state, prog, final, urls) ==
    /\ runs' = [ runs EXCEPT ![i] = run ]
    /\ processingState' = SetState(processingState, state)
    /\ progress' = SetState(progress, prog)
    /\ finalPreviewUrl' = SetState(finalPreviewUrl, final)
    /\ objectUrls' = urls
    /\ UNCHANGED << selectedFile, removeBg, normalizeEnabled, originalPreviewUrl,
                    mounted, pc >>
    /\ UNCHANGED << rasterVars, nearestVars, routeVars >>

\* The catch block of processImage (lines 86-90).
Caught(i, message, urls) ==
    RunWrites(i, [ runs[i] EXCEPT !.pc = "error", !.message = message, !.decodeUrl = 0 ],
              Failed(message), 0, finalPreviewUrl, urls)

\* processImage resumed after `await normalizeImageBlob`.
Normalized(i, urls) ==
    LET next == AfterNormalize(runs[i].shouldRemoveBg, urls)
    IN  RunWrites(i, [ runs[i] EXCEPT !.pc = next.pc, !.decodeUrl = next.decodeUrl ],
                  next.state, next.progress, finalPreviewUrl, next.urls)

\* The messages of the getContext checks of pixelateImage.
ContextMessages ==
    { "Failed to get 2D context", "Failed to get crop 2D context",
      "Failed to get small 2D context", "Failed to get outline 2D context",
      "Failed to get final 2D context" }

\* blobToImage of normalizeImageBlob settles: onload or onerror, both
\* revoking the decode URL; then lines 208-225 up to canvas.toBlob.
NormalizeLoaded(i) ==
    /\ i \in DOMAIN runs /\ runs[i].pc = "normalize_load"
    /\ LET urls == revokeObjectURL(objectUrls, runs[i].decodeUrl)
       IN  \E outcome \in { "load", "error", "no-context" } :
             IF outcome = "error" THEN Caught(i, "Failed to load image", urls)
             ELSE IF FileLongest(runs[i].file) <= NormalizeLongestSide
                  THEN outcome = "load" /\ Normalized(i, urls)
             ELSE IF outcome = "no-context"
                  THEN Caught(i, "Failed to get 2D context for normalize", urls)
             ELSE RunWrites(i, [ runs[i] EXCEPT !.pc = "normalize_export",
                                                !.decodeUrl = 0 ],
                            processingState, progress, finalPreviewUrl, urls)

\* canvas.toBlob of normalizeImageBlob calls back, with a blob or with null.
NormalizeExported(i) ==
    /\ i \in DOMAIN runs /\ runs[i].pc = "normalize_export"
    /\ \E blob \in BOOLEAN :
         IF blob THEN Normalized(i, objectUrls)
         ELSE Caught(i, "Failed to export image", objectUrls)

\* removeBackground settles: resolved, rejected with an Error, or rejected
\* with a value that is not an Error.  Resumed: lines 78-80 and the
\* blobToImage of pixelateImage.
BackgroundRemoved(i) ==
    /\ i \in DOMAIN runs /\ runs[i].pc = "removing"
    /\ \E outcome \in { "resolved", "rejected", "rejected-no-error" } :
         IF outcome = "resolved"
         THEN RunWrites(i, [ runs[i] EXCEPT !.pc = "pixelate_load",
                                            !.decodeUrl = objectUrls.created + 1 ],
                        Phase("pixelating"), 60, finalPreviewUrl,
                        createObjectURL(objectUrls))
         ELSE IF outcome = "rejected"
              THEN Caught(i, "removeBackground failed", objectUrls)
              ELSE Caught(i, "Unknown error occurred", objectUrls)

\* blobToImage of pixelateImage settles; then lines 96-170 up to
\* canvas.toBlob.
PixelateLoaded(i) ==
    /\ i \in DOMAIN runs /\ runs[i].pc = "pixelate_load"
    /\ LET urls == revokeObjectURL(objectUrls, runs[i].decodeUrl)
       IN  \/ Caught(i, "Failed to load image", urls)
           \/ \E message \in ContextMessages : Caught(i, message, urls)
           \/ RunWrites(i, [ runs[i] EXCEPT !.pc = "pixelate_export", !.decodeUrl = 0 ],
                        processingState, progress, finalPreviewUrl, urls)

\* canvas.toBlob of pixelateImage calls back; then lines 82-85.
PixelateExported(i) ==
    /\ i \in DOMAIN runs /\ runs[i].pc = "pixelate_export"
    /\ \E blob \in BOOLEAN :
         IF blob
         THEN LET outUrl == objectUrls.created + 1
              IN  RunWrites(i, [ runs[i] EXCEPT !.pc = "done", !.outUrl = outUrl ],
                            Phase("done"), 100, outUrl, createObjectURL(objectUrls))
         ELSE Caught(i, "Failed to export image", objectUrls)

\* The cleanup of the effect of lines 32-38.  Its dependency list is empty,
\* so it holds the originalPreviewUrl and finalPreviewUrl of the first
\* render, which are both null.
Unmount ==
    /\ mounted
    /\ mounted' = FALSE
    /\ objectUrls' = revokeObjectURL(revokeObjectURL(objectUrls, 0), 0)
    /\ UNCHANGED << selectedFile, processingState, progress, removeBg,
                    normalizeEnabled, originalPreviewUrl, finalPreviewUrl, runs, pc >>
    /\ UNCHANGED << rasterVars, nearestVars, routeVars >>

NextUI ==
    \/ HandleFileChange
    \/ OnRemoveBgToggle
    \/ \E i \in 1 .. MaxRuns : NormalizeLoaded(i)
    \/ \E i \in 1 .. MaxRuns : NormalizeExported(i)
    \/ \E i \in 1 .. MaxRuns : BackgroundRemoved(i)
    \/ \E i \in 1 .. MaxRuns : PixelateLoaded(i)
    \/ \E i \in 1 .. MaxRuns : PixelateExported(i)
    \/ Unmount

SpecUI == InitUI /\ [][NextUI]_vars

\* The runs of SpecUI in which the user changes the file or the checkbox
\* only when no processImage run is in flight.
InFlightRuns == { i \in DOMAIN runs : InFlight(runs[i]) }

HandleFileChangeWhenIdle == InFlightRuns = {} /\ HandleFileChange
OnRemoveBgToggleWhenIdle == InFlightRuns = {} /\ OnRemoveBgToggle

NextUISequential ==
    \/ HandleFileChangeWhenIdle
    \/ OnRemoveBgToggleWhenIdle
    \/ \E i \in 1 .. MaxRuns : NormalizeLoaded(i)
    \/ \E i \in 1 .. MaxRuns : NormalizeExported(i)
    \/ \E i \in 1 .. MaxRuns : BackgroundRemoved(i)
    \/ \E i \in 1 .. MaxRuns : PixelateLoaded(i)
    \/ \E i \in 1 .. MaxRuns : PixelateExported(i)
    \/ Unmount

SpecUISequential == InitUI /\ [][NextUISequential]_vars

(***************************************************************************)
(* Claims on the component (SpecUI).                                       *)
(***************************************************************************)
\* C11 as stated: the task in which a step of a run fails leaves phase
\* 'error' with the failure's message, progress 0 and no processed image
\* (finalPreviewUrl null), and the run takes no further step.
C11_Original ==
    [][ \A i \in DOMAIN runs :
          (mounted /\ InFlight(runs[i]) /\ runs'[i].pc = "error") =>
              /\ processingState' = Failed(runs'[i].message)
              /\ progress' = 0
              /\ finalPreviewUrl' = 0 ]_vars

\* The place of a run's position in the order of the stages.
StageRank(p) ==
    CASE p = "normalize_load"   -> 1
      [] p = "normalize_export" -> 2
      [] p = "removing"         -> 3
      [] p = "pixelate_load"    -> 4
      [] p = "pixelate_export"  -> 5
      [] p = "done"             -> 6
      [] p = "error"            -> 6

\* C16 as stated: every step of a run moves it forward through its stages,
\* 'removing-background' is entered only when background removal was
\* requested, 'done' is reached only from the pixelating stage and with
\* the output image set, and progress does not decrease at a step that is
\* not a failure and is 1 at the step that ends the run in 'done'.
C16_Original ==
    [][ \A i \in DOMAIN runs :
          (mounted /\ runs'[i] # runs[i]) =>
              /\ StageRank(runs'[i].pc) > StageRank(runs[i].pc)
              /\ runs'[i].pc = "removing" =>
                   runs[i].shouldRemoveBg /\ processingState'.phase = "removing-background"
              /\ runs'[i].pc = "done" =>
                   /\ runs[i].pc = "pixelate_export"
                   /\ finalPreviewUrl' = runs'[i].outUrl /\ finalPreviewUrl' # 0
                   /\ processingState'.phase = "done" /\ progress' = 100
              /\ runs'[i].pc # "error" => progress' >= progress ]_vars

\* C18 as stated: at most one processImage run is in flight at any time.
C18_Original == Cardinality(InFlightRuns) <= 1

\* C19 as stated: once every started run has finished, the phase and the
\* processed image shown are those of the run started last.
C19_Original ==
    (mounted /\ runs # << >> /\ InFlightRuns = {}) =>
        LET last == runs[Len(runs)]
        IN  IF last.pc = "done"
            THEN processingState.phase = "done" /\ finalPreviewUrl = last.outUrl
            ELSE processingState = Failed(last.message)

\* The object URLs created and not revoked, and the ones still in use: the
\* two previews of the mounted component and the decode URLs of blobToImage
\* calls that have not settled.
LiveUrls == (1 .. objectUrls.created) \ objectUrls.revoked
HeldUrls ==
    ((IF mounted THEN { originalPreviewUrl, finalPreviewUrl } ELSE {})
        \cup { runs[i].decodeUrl : i \in InFlightRuns }) \ { 0 }

\* C20 as stated: every object URL that is no longer held has been
\* revoked, and no URL still held has been revoked.
C20_Original ==
    /\ LiveUrls \subseteq HeldUrls
    /\ HeldUrls \cap objectUrls.revoked = {}

(***************************************************************************)
(* SpecRoute: the POST handler of the image-edit route                     *)
(* (src/unnamed/part_001).  `request` holds the form fields, the           *)
(* environment's API key and what each awaited collaborator will do; a     *)
(* step runs the handler from one await to the next.                       *)
(***************************************************************************)
DefaultPrompt == "Recreate the subject in a clean, modern style"

JsonResponse(status, message) ==
    [ status |-> status, contentType |-> "application/json", error |-> message ]
ImageResponse ==
    [ status |-> 200, contentType |-> "image/png", error |-> "" ]

\* err instanceof Error ? err.message : 'Unknown error'
CaughtResponse(thrown) ==
    JsonResponse(500, IF thrown.isError THEN thrown.message ELSE "Unknown error")

Thrown(message) == [ isError |-> TRUE, message |-> message ]
ThrownValue == [ isError |-> FALSE, message |-> "" ]

\* The two checks with the API key looked at first.
ChecksKeyFirst(req) ==
    IF req.apiKey # "present"
    THEN JsonResponse(500, "Server misconfiguration: missing OPEN_AI_API_KEY")
    ELSE IF req.image \in { "absent", "empty-text" }
    THEN JsonResponse(400, "Missing image file")
    ELSE JsonResponse(0, "")

\* Lines 13-20: the response of a failed check; status 0 when both pass.
Checks(req) ==
    IF req.image \in { "absent", "empty-text" }
    THEN JsonResponse(400, "Missing image file")
    ELSE IF req.apiKey # "present"
    THEN JsonResponse(500, "Server misconfiguration: missing OPEN_AI_API_KEY")
    ELSE JsonResponse(0, "")

InitRoute ==
    /\ pc = "received"
    /\ request \in [ image    : { "absent", "empty-text", "text", "file" },
                     prompt   : { "absent", "", "pixel art" },
                     apiKey   : { "absent", "empty", "present" },
                     formData : { "parsed", "throws" },
                     toFile   : { "resolved", "throws" },
                     provider : { "image", "no-data", "empty-b64", "throws",
                                  "throws-value" } ]
    /\ response = << >>
    /\ providerCalls = << >>
    /\ NoRaster /\ NoNearest /\ NoUi

Respond(r) ==
    /\ response' = Append(response, r)
    /\ pc' = "responded"

\* await req.formData() settles; then lines 10-24 up to file.arrayBuffer().
FormParsed ==
    /\ pc = "received"
    /\ IF request.formData = "throws"
       THEN Respond(CaughtResponse(Thrown("Failed to parse body as FormData")))
       ELSE IF Checks(request).status # 0
       THEN Respond(Checks(request))
       ELSE IF request.image = "text"
       THEN Respond(CaughtResponse(Thrown("file.arrayBuffer is not a function")))
       ELSE response' = response /\ pc' = "reading"
    /\ UNCHANGED << request, providerCalls, rasterVars, nearestVars, uiVars >>

\* arrayBuffer and toFile settle; then the call of client.images.edit.
FileRead ==
    /\ pc = "reading"
    /\ IF request.toFile = "throws"
       THEN /\ Respond(CaughtResponse(Thrown("toFile failed")))
            /\ providerCalls' = providerCalls
       ELSE /\ providerCalls' =
                  Append(providerCalls,
                         [ model  |-> "gpt-image-1",
                           prompt |-> IF request.prompt \in { "absent", "" }
                                      THEN DefaultPrompt ELSE request.prompt ])
            /\ response' = response
            /\ pc' = "awaiting-provider"
    /\ UNCHANGED << request, rasterVars, nearestVars, uiVars >>

\* client.images.edit settles; then lines 37-51, or the catch.
ProviderSettled ==
    /\ pc = "awaiting-provider"
    /\ Respond(CASE request.provider = "image" -> ImageResponse
                 [] request.provider \in { "no-data", "empty-b64" } ->
                        JsonResponse(502, "No image returned from provider")
                 [] request.provider = "throws" ->
                        CaughtResponse(Thrown("provider error"))
                 [] request.provider = "throws-value" ->
                        CaughtResponse(ThrownValue))
    /\ UNCHANGED << request, providerCalls, rasterVars, nearestVars, uiVars >>

NextRoute == FormParsed \/ FileRead \/ ProviderSettled

SpecRoute == InitRoute /\ [][NextRoute]_vars

\* C17: the provider is called at most once and only when an image file
\* and the API key are present; a missing image yields 400 whatever the
\* key, a missing key 500, a provider reply without image data 502, a
\* thrown exception 500 with its message, and 200 image/png is returned
\* only when the provider returned image data; a request that has not been
\* answered can take a step, and an answered one has exactly one response.
C17_RouteResponses ==
    /\ Len(providerCalls) <= 1
    /\ Len(providerCalls) = 1 =>
         request.image = "file" /\ request.apiKey = "present"
    /\ IF pc = "responded" THEN Len(response) = 1
       ELSE response = << >> /\ ENABLED NextRoute
    /\ pc = "responded" =>
         LET r      == response[1]
             called == Len(providerCalls) = 1
         IN  /\ (request.formData = "parsed"
                   /\ request.image \in { "absent", "empty-text" }) =>
                    r = JsonResponse(400, "Missing image file")
             /\ (request.formData = "parsed"
                   /\ request.image \in { "text", "file" }
                   /\ request.apiKey # "present") =>
                    r.status = 500 /\ ~called
             /\ (called /\ request.provider \in { "no-data", "empty-b64" }) =>
                    r = JsonResponse(502, "No image returned from provider")
             /\ (called /\ request.provider = "throws") =>
                    r = JsonResponse(500, "provider error")
             /\ request.formData = "throws" =>
                    r = JsonResponse(500, "Failed to parse body as FormData")
             /\ r.status = 200 =>
                    /\ called /\ request.provider = "image"
                    /\ r.contentType = "image/png"
             /\ r.status \in { 200, 400, 500, 502 }

\* A request with neither an image nor a key was answered 400 without a
\* call of the provider.
C17_Witness ==
    /\ pc = "responded"
    /\ request.image = "absent" /\ request.apiKey = "absent"
    /\ response = << JsonResponse(400, "Missing image file") >>
    /\ providerCalls = << >>

(***************************************************************************)
(* SpecLayout: the sprite grid of stage 2 and the placement of stage 5 for *)
(* every crop rectangle up to MaxCrop on a side and every block size up    *)
(* to MaxLayoutBlock, and the default one.                                 *)
(***************************************************************************)
MaxCrop == 26
MaxLayoutBlock == 3

InitLayout ==
    /\ pc = "l_start"
    /\ \E w \in 1 .. MaxCrop, h \in 1 .. MaxCrop :
         cropBounds = [ x |-> 0, y |-> 0, w |-> w, h |-> h ]
    /\ blockSize \in (0 .. MaxLayoutBlock) \cup { DefaultPixelSize }
    /\ smallImage = Null /\ layout = Null
    /\ srcImage = Null /\ palette = Null /\ ditherEnabled = Null
    /\ ditherStrength = Null /\ outlineThickness = Null /\ paletteRgb = Null
    /\ quantized = Null /\ requantized = Null /\ outlineImage = Null
    /\ finalCanvas = Null /\ normIn = Null /\ normOut = Null
    /\ NoNearest /\ NoUi /\ NoRoute

\* Lines 120-124: the small canvas's size.
SizeSprite ==
    /\ pc = "l_start"
    /\ smallImage' = NewImageData(SpriteDim(cropBounds.w, blockSize),
                                  SpriteDim(cropBounds.h, blockSize))
    /\ pc' = "l_sized"
    /\ UNCHANGED << srcImage, blockSize, palette, ditherEnabled, ditherStrength,
                    outlineThickness, cropBounds, paletteRgb, quantized,
                    requantized, outlineImage, layout, finalCanvas, normIn, normOut >>
    /\ UNCHANGED << nearestVars, uiVars, routeVars >>

\* Lines 147-167: square, targetW, targetH, offsetX, offsetY.
PlaceSprite ==
    /\ pc = "l_sized"
    /\ layout' = Layout(cropBounds.w, cropBounds.h, smallImage.width, smallImage.height)
    /\ pc' = "l_placed"
    /\ UNCHANGED << srcImage, blockSize, palette, ditherEnabled, ditherStrength,
                    outlineThickness, cropBounds, smallImage, paletteRgb, quantized,
                    requantized, outlineImage, finalCanvas, normIn, normOut >>
    /\ UNCHANGED << nearestVars, uiVars, routeVars >>

NextLayout == SizeSprite \/ PlaceSprite

SpecLayout == InitLayout /\ [][NextLayout]_vars

\* The rectangle lies inside the canvas and is centred: each side at least
\* 1, no negative offset, no overhang, and the two margins of each axis
\* differ by at most 1.
InsideAndCentred ==
    /\ layout.square = Max(cropBounds.w, cropBounds.h)
    /\ layout.targetW >= 1 /\ layout.targetH >= 1
    /\ layout.offsetX >= 0 /\ layout.offsetY >= 0
    /\ layout.offsetX + layout.targetW <= layout.square
    /\ layout.offsetY + layout.targetH <= layout.square
    /\ Abs((layout.square - layout.targetW - layout.offsetX) - layout.offsetX) <= 1
    /\ Abs((layout.square - layout.targetH - layout.offsetY) - layout.offsetY) <= 1

\* max(1, floor(square * coverage)), coverage = 0.6
CoveredSide == Max(1, (layout.square * CoverageTenths) \div 10)

\* C21 (as amended): for every crop size >= 1x1 and every block size the
\* composited sprite rectangle lies inside the canvas and is centred, and
\* its longer side is max(1, floor(square * coverage)) or one pixel less,
\* never less than 1.
C21_SpriteRectangle ==
    pc = "l_placed" =>
        /\ InsideAndCentred
        /\ Max(layout.targetW, layout.targetH)
              \in { CoveredSide, Max(1, CoveredSide - 1) }

\* A 23x23 crop with blockSize 1: floor(23 * 0.6) is 13 and the rectangle
\* is 12x12, at offset 5 with margins 5 and 6.
C21_Witness ==
    /\ pc = "l_placed"
    /\ cropBounds.w = 23 /\ cropBounds.h = 23 /\ blockSize = 1
    /\ CoveredSide = 13
    /\ layout.targetW = 12 /\ layout.targetH = 12
    /\ layout.offsetX = 5 /\ layout.offsetY = 5

\* C21 as stated: inside the canvas, centred, and the longer target side
\* equal to max(1, floor(square * coverage)).
C21_Original ==
    pc = "l_placed" =>
        /\ InsideAndCentred
        /\ Max(layout.targetW, layout.targetH) = CoveredSide

====
